---- MODULE Spec2Model ----
(***************************************************************************)
(* Model of the Kong plugin resources of terraform-provider-kong:          *)
(*   kong/resource_kong_plugin.go            (the primary attachment)      *)
(*   unnamed/part_000                        (the per-consumer attachment) *)
(*                                                                         *)
(* Go strings are sequences of one-character strings.  JSON text is a      *)
(* sequence of lexemes (tokens); a JSON value held in an interface{} is    *)
(* represented by the tokens json.Marshal writes for it.                   *)
(***************************************************************************)
EXTENDS Integers, Sequences, FiniteSets, TLC

VARIABLES
    kind,   \* which resource the ResourceData belongs to: "plugin" or "consumer_plugin_config"
    d,      \* the schema.ResourceData of the last operation (id and attributes)
    op,     \* the last operation: its handler, the ResourceData it started from, its error, its remote calls
    probe,  \* input of a pure function under test
    res     \* its result

vars == <<kind, d, op, probe, res>>

----------------------------------------------------------------------------
(* Bounds *)

\* longest component of a composite identifier
MaxIdLen == 2
\* longest identifier handed to the importer
MaxImportLen == 3
\* longest unstructured token sequence tried as JSON text
MaxRaw == 3

----------------------------------------------------------------------------
(* Strings *)

Chars == {"a", "|"}

Strs(n) == UNION {[1..k -> Chars] : k \in 0..n}

HasPipe(s) == \E i \in 1..Len(s) : s[i] = "|"

FirstPipe(s) == CHOOSE i \in 1..Len(s) : s[i] = "|" /\ \A j \in 1..(i - 1) : s[j] # "|"

\* strings.Split(s, "|"): always at least one part; "" splits into <<"">>
RECURSIVE Split(_)
Split(s) ==
    IF ~HasPipe(s) THEN <<s>>
    ELSE <<SubSeq(s, 1, FirstPipe(s) - 1)>> \o Split(SubSeq(s, FirstPipe(s) + 1, Len(s)))

----------------------------------------------------------------------------
(* Identifier codec *)

buildId(consumerId, pluginName, configId) ==
    consumerId \o <<"|">> \o pluginName \o <<"|">> \o configId

NoFields == [err |-> "MalformedIdentifier", consumerId |-> <<>>, pluginName |-> <<>>, id |-> <<>>]

\* mutant: the part count is checked as "fewer than three"
splitIdIntoFields_AtLeast3(id) ==
    LET idSplit == Split(id) IN
    IF Len(idSplit) < 3 THEN NoFields
    ELSE [err |-> "", consumerId |-> idSplit[1], pluginName |-> idSplit[2], id |-> idSplit[3]]

\* mutant: the first two parts are swapped
splitIdIntoFields_Swapped(id) ==
    LET idSplit == Split(id) IN
    IF Len(idSplit) # 3 THEN NoFields
    ELSE [err |-> "", consumerId |-> idSplit[2], pluginName |-> idSplit[1], id |-> idSplit[3]]

splitIdIntoFields(id) ==
    LET idSplit == Split(id) IN
    IF Len(idSplit) # 3 THEN NoFields
    ELSE [err |-> "", consumerId |-> idSplit[1], pluginName |-> idSplit[2], id |-> idSplit[3]]

----------------------------------------------------------------------------
(* JSON text and encoding/json *)

WS == " "
Punct == {"{", "}", "[", "]", ":", ","}
\* string lexemes (the token "a" is the JSON text "a" with its quotes)
StrToks == {"a", "created_at", "id", "x"}
\* number lexemes
NumToks == {"1", "1.0"}
LitToks == {"null", "true"}
Tokens == Punct \cup StrToks \cup NumToks \cup LitToks \cup {WS}

\* the keys of a map[string]interface{}; a map is a function on Keys whose
\* absent keys hold Absent (no JSON value is written with zero tokens)
Keys == StrToks
Absent == <<>>
NoEntries == [k \in Keys |-> Absent]
KeysOf(m) == {k \in Keys : m[k] # Absent}

\* json.Marshal writes map keys in sorted (byte) order
KeyOrder == <<"a", "created_at", "id", "x">>

\* a float64 holding 1 is written "1"
NumCanon(t) == IF t = "1.0" THEN "1" ELSE t

RECURSIVE MarshalFrom(_, _, _)
MarshalFrom(m, i, first) ==
    IF i > Len(KeyOrder) THEN <<>>
    ELSE LET k == KeyOrder[i] IN
         IF m[k] = Absent THEN MarshalFrom(m, i + 1, first)
         ELSE (IF first THEN <<>> ELSE <<",">>) \o <<k, ":">> \o m[k]
              \o MarshalFrom(m, i + 1, FALSE)

\* json.Marshal(map[string]interface{}): compact, keys sorted
Marshal(m) == <<"{">> \o MarshalFrom(m, 1, TRUE) \o <<"}">>

ParseFail == [ok |-> FALSE, kind |-> "", val |-> <<>>, map |-> NoEntries, rest |-> <<>>]
Parsed(kd, v, m, r) == [ok |-> TRUE, kind |-> kd, val |-> v, map |-> m, rest |-> r]

\* the decoder on whitespace-free tokens: one value off the front of t.
\* val is the value as json.Marshal would write it back (object keys sorted,
\* a repeated key keeping its last value), map the members of an object.
RECURSIVE ParseValue(_), ParseMembers(_, _), ParseElems(_, _)
ParseValue(t) ==
    IF t = <<>> THEN ParseFail
    ELSE LET h == Head(t)
             r == Tail(t)
         IN  CASE h \in StrToks -> Parsed("string", <<h>>, NoEntries, r)
               [] h \in NumToks -> Parsed("number", <<NumCanon(h)>>, NoEntries, r)
               [] h = "null" -> Parsed("null", <<h>>, NoEntries, r)
               [] h = "true" -> Parsed("bool", <<h>>, NoEntries, r)
               [] h = "{" -> IF r # <<>> /\ Head(r) = "}"
                             THEN Parsed("object", Marshal(NoEntries), NoEntries, Tail(r))
                             ELSE ParseMembers(r, NoEntries)
               [] h = "[" -> IF r # <<>> /\ Head(r) = "]"
                             THEN Parsed("array", <<"[", "]">>, NoEntries, Tail(r))
                             ELSE ParseElems(r, <<"[">>)
               [] OTHER -> ParseFail

ParseMembers(t, acc) ==
    IF Len(t) < 2 \/ t[1] \notin StrToks \/ t[2] # ":" THEN ParseFail
    ELSE LET v == ParseValue(SubSeq(t, 3, Len(t))) IN
         IF ~v.ok \/ v.rest = <<>> THEN ParseFail
         ELSE LET acc2 == [acc EXCEPT ![t[1]] = v.val] IN
              CASE Head(v.rest) = "}" -> Parsed("object", Marshal(acc2), acc2, Tail(v.rest))
                [] Head(v.rest) = "," -> ParseMembers(Tail(v.rest), acc2)
                [] OTHER -> ParseFail

ParseElems(t, acc) ==
    LET v == ParseValue(t) IN
    IF ~v.ok \/ v.rest = <<>> THEN ParseFail
    ELSE CASE Head(v.rest) = "]" -> Parsed("array", acc \o v.val \o <<"]">>, NoEntries, Tail(v.rest))
           [] Head(v.rest) = "," -> ParseElems(Tail(v.rest), acc \o v.val \o <<",">>)
           [] OTHER -> ParseFail

NotWS(t) == t # WS

\* the whole text as one JSON value (whitespace between lexemes is skipped)
ParseText(text) ==
    LET p == ParseValue(SelectSeq(text, NotWS)) IN
    IF p.ok /\ p.rest = <<>> THEN p ELSE ParseFail

\* json.Unmarshal(text, &target) for a target of type map[string]interface{}:
\* invalid text is a SyntaxError, an object is stored into the map, null
\* leaves the target as it is and reports nothing, any other value is an
\* UnmarshalTypeError.
Unmarshal(text, target) ==
    LET p == ParseText(text) IN
    CASE ~p.ok -> [err |-> "SyntaxError", map |-> target]
      [] p.kind = "object" ->
            [err |-> "", map |-> [k \in Keys |-> IF p.map[k] # Absent THEN p.map[k] ELSE target[k]]]
      [] p.kind = "null" -> [err |-> "", map |-> target]
      [] OTHER -> [err |-> "UnmarshalTypeError", map |-> target]

----------------------------------------------------------------------------
(* Configuration blobs: validation, normalisation, drift filtering *)

validateDataJSON(dataJSON) ==
    IF Unmarshal(dataJSON, NoEntries).err # "" THEN "InvalidConfig" ELSE ""

\* "" when the text does not unmarshal, else the map written back
normalizeDataJSON(dataJSON) ==
    LET u == Unmarshal(dataJSON, NoEntries) IN
    IF u.err # "" THEN <<>> ELSE Marshal(u.map)

\* the field names the gateway injects into a stored configuration
computedPluginProperties == {"id", "created_at"}

contains(set, key) == key \in set

\* mutant: nothing is filtered
pluginConfigJsonToString_NoFilter(data) == Marshal(data)

pluginConfigJsonToString(data) ==
    Marshal([key \in Keys |->
                IF ~contains(computedPluginProperties, key) THEN data[key] ELSE Absent])

consumerPluginConfigJsonToString(body) ==
    LET u == Unmarshal(body, NoEntries) IN
    IF u.err # "" THEN [out |-> <<>>, err |-> u.err]
    ELSE [out |-> Marshal([key \in Keys |->
                     IF ~contains(computedPluginProperties, key) THEN u.map[key] ELSE Absent]),
          err |-> ""]

----------------------------------------------------------------------------
(* schema.ResourceData, the remote objects and the record of an operation *)

Kinds == {"plugin", "consumer_plugin_config"}

NewResourceData ==
    [id |-> <<>>, name |-> <<>>, api_id |-> <<>>, consumer_id |-> <<>>, service_id |-> <<>>,
     route_id |-> <<>>, plugin_name |-> <<>>, config |-> NoEntries, config_json |-> <<>>]

\* d.Get of a string attribute: "" when unset
readStringFromResource(rd, key) == rd[key]

\* d.GetOk of a map attribute: nil when unset or empty (nil is NoEntries)
readMapFromResource(rd, key) == rd[key]

IsNil(m) == m = NoEntries

SetId(rd, id) == [rd EXCEPT !.id = id]

\* what the remote API hands back: a gokong.Plugin (config) or a
\* gokong.ConsumerPluginConfig (body)
NoObj ==
    [id |-> <<>>, name |-> <<>>, api_id |-> <<>>, consumer_id |-> <<>>, service_id |-> <<>>,
     route_id |-> <<>>, config |-> NoEntries, body |-> <<>>]

\* a remote call's outcome: "err" (an error), "nil" (no error, no object), "ok" (obj)
Resp(status, obj) == [status |-> status, obj |-> obj]
ErrResp == Resp("err", NoObj)
NilResp == Resp("nil", NoObj)

NoRequest ==
    [name |-> <<>>, api_id |-> <<>>, consumer_id |-> <<>>, service_id |-> <<>>,
     route_id |-> <<>>, config |-> NoEntries]

\* one call of the gokong client, with what it was given and what it returned
Call(fn, id, owner, plugin, req, payload, resp) ==
    [fn |-> fn, id |-> id, owner |-> owner, plugin |-> plugin, req |-> req,
     payload |-> payload, resp |-> resp]

\* what a handler leaves behind: the ResourceData, its error, the calls it made
Outcome(rd, err, calls) == [d |-> rd, err |-> err, calls |-> calls]

After(call, outcome) == [outcome EXCEPT !.calls = <<call>> \o @]

----------------------------------------------------------------------------
(* kong_plugin: the primary attachment *)

\* mutant: config_json is preferred over config
createKongPluginRequestFromResourceData_BlobFirst(rd) ==
    LET base == [name |-> readStringFromResource(rd, "name"),
                 api_id |-> readStringFromResource(rd, "api_id"),
                 consumer_id |-> readStringFromResource(rd, "consumer_id"),
                 service_id |-> readStringFromResource(rd, "service_id"),
                 route_id |-> readStringFromResource(rd, "route_id"),
                 config |-> readMapFromResource(rd, "config")]
    IN  IF rd.config_json # <<>>
        THEN LET u == Unmarshal(rd.config_json, NoEntries) IN
             IF u.err # "" THEN [req |-> base, err |-> "InvalidConfig"]
             ELSE [req |-> [base EXCEPT !.config = u.map], err |-> ""]
        ELSE [req |-> base, err |-> ""]

createKongPluginRequestFromResourceData(rd) ==
    LET base == [name |-> readStringFromResource(rd, "name"),
                 api_id |-> readStringFromResource(rd, "api_id"),
                 consumer_id |-> readStringFromResource(rd, "consumer_id"),
                 service_id |-> readStringFromResource(rd, "service_id"),
                 route_id |-> readStringFromResource(rd, "route_id"),
                 config |-> readMapFromResource(rd, "config")]
    IN  IF IsNil(base.config) /\ rd.config_json # <<>>
        THEN LET u == Unmarshal(rd.config_json, NoEntries) IN
             IF u.err # "" THEN [req |-> base, err |-> "InvalidConfig"]
             ELSE [req |-> [base EXCEPT !.config = u.map], err |-> ""]
        ELSE [req |-> base, err |-> ""]

\* mutant: config_json is synced only when config is not in use
resourceKongPluginRead_KeepsBlob(rd, get) ==
    LET call == Call("GetById", rd.id, <<>>, <<>>, NoRequest, <<>>, get) IN
    CASE get.status = "err" -> Outcome(rd, "RemoteError", <<call>>)
      [] get.status = "nil" -> Outcome(SetId(rd, <<>>), "", <<call>>)
      [] OTHER ->
            Outcome([rd EXCEPT !.name = get.obj.name, !.api_id = get.obj.api_id,
                               !.service_id = get.obj.service_id, !.route_id = get.obj.route_id,
                               !.consumer_id = get.obj.consumer_id,
                               !.config_json = IF IsNil(rd.config)
                                               THEN pluginConfigJsonToString(get.obj.config)
                                               ELSE @],
                    "", <<call>>)

resourceKongPluginRead(rd, get) ==
    LET call == Call("GetById", rd.id, <<>>, <<>>, NoRequest, <<>>, get) IN
    CASE get.status = "err" -> Outcome(rd, "RemoteError", <<call>>)
      [] get.status = "nil" -> Outcome(SetId(rd, <<>>), "", <<call>>)
      [] OTHER ->
            Outcome([rd EXCEPT !.name = get.obj.name, !.api_id = get.obj.api_id,
                               !.service_id = get.obj.service_id, !.route_id = get.obj.route_id,
                               !.consumer_id = get.obj.consumer_id,
                               !.config_json = pluginConfigJsonToString(get.obj.config)],
                    "", <<call>>)

\* mutant: the identifier is withdrawn when the follow-up read fails
resourceKongPluginCreate_Withdraws(rd, create, get) ==
    LET rq == createKongPluginRequestFromResourceData(rd)
        call == Call("Create", <<>>, <<>>, <<>>, rq.req, <<>>, create)
        r == resourceKongPluginRead(SetId(rd, create.obj.id), get)
    IN  CASE rq.err # "" -> Outcome(rd, rq.err, <<>>)
          [] create.status = "err" -> Outcome(rd, "RemoteError", <<call>>)
          [] OTHER -> After(call, IF r.err # "" THEN [r EXCEPT !.d = rd] ELSE r)

resourceKongPluginCreate(rd, create, get) ==
    LET rq == createKongPluginRequestFromResourceData(rd)
        call == Call("Create", <<>>, <<>>, <<>>, rq.req, <<>>, create)
    IN  CASE rq.err # "" -> Outcome(rd, rq.err, <<>>)
          [] create.status = "err" -> Outcome(rd, "RemoteError", <<call>>)
          [] OTHER -> After(call, resourceKongPluginRead(SetId(rd, create.obj.id), get))

resourceKongPluginUpdate(rd, update, get) ==
    LET rq == createKongPluginRequestFromResourceData(rd)
        call == Call("UpdateById", rd.id, <<>>, <<>>, rq.req, <<>>, update)
    IN  CASE rq.err # "" -> Outcome(rd, rq.err, <<>>)
          [] update.status = "err" -> Outcome(rd, "RemoteError", <<call>>)
          [] OTHER -> After(call, resourceKongPluginRead(rd, get))

resourceKongPluginDelete(rd, del) ==
    LET call == Call("DeleteById", rd.id, <<>>, <<>>, NoRequest, <<>>, del) IN
    IF del.status = "err" THEN Outcome(rd, "RemoteError", <<call>>)
    ELSE Outcome(rd, "", <<call>>)

----------------------------------------------------------------------------
(* kong_consumer_plugin_config: the per-consumer attachment *)

\* the orders in which "range configMap" may visit the entries
Orders(m) ==
    {o \in [1..Cardinality(KeysOf(m)) -> KeysOf(m)] :
        \A i, j \in DOMAIN o : i # j => o[i] # o[j]}

\* key=value pairs joined by "&", the values written without their quotes
RECURSIVE KeyValues(_, _, _)
KeyValues(m, order, position) ==
    IF position > Len(order) THEN <<>>
    ELSE <<order[position], "=">> \o m[order[position]]
         \o (IF Len(order) > 1 /\ position # Len(order) THEN <<"&">> ELSE <<>>)
         \o KeyValues(m, order, position + 1)

\* mutant: config wins when both are given
generatePluginConfig_MapFirst(configMap, configJSON, order) ==
    IF ~IsNil(configMap) THEN [out |-> KeyValues(configMap, order, 1), err |-> ""]
    ELSE [out |-> configJSON, err |-> ""]

generatePluginConfig(configMap, configJSON, order) ==
    IF ~IsNil(configMap) /\ configJSON # <<>> THEN [out |-> <<>>, err |-> "ConflictingConfig"]
    ELSE IF ~IsNil(configMap) THEN [out |-> KeyValues(configMap, order, 1), err |-> ""]
    ELSE [out |-> configJSON, err |-> ""]

\* mutant: a missing remote object clears the identifier, as for kong_plugin
resourceKongConsumerPluginConfigRead_NilClears(rd, get) ==
    LET idFields == splitIdIntoFields(rd.id)
        call == Call("GetPluginConfig", idFields.id, idFields.consumerId, idFields.pluginName,
                     NoRequest, <<>>, get)
        upstreamJson == consumerPluginConfigJsonToString(get.obj.body)
    IN  CASE idFields.err # "" -> Outcome(rd, idFields.err, <<>>)
          [] get.status = "err" -> Outcome(rd, "RemoteError", <<call>>)
          [] get.status = "nil" -> Outcome(SetId(rd, <<>>), "", <<call>>)
          [] upstreamJson.err # "" ->
                Outcome([rd EXCEPT !.consumer_id = idFields.consumerId,
                                   !.plugin_name = idFields.pluginName],
                        "InvalidBody", <<call>>)
          [] OTHER ->
                Outcome([rd EXCEPT !.consumer_id = idFields.consumerId,
                                   !.plugin_name = idFields.pluginName,
                                   !.config_json = upstreamJson.out],
                        "", <<call>>)

resourceKongConsumerPluginConfigRead(rd, get) ==
    LET idFields == splitIdIntoFields(rd.id)
        call == Call("GetPluginConfig", idFields.id, idFields.consumerId, idFields.pluginName,
                     NoRequest, <<>>, get)
        upstreamJson == consumerPluginConfigJsonToString(get.obj.body)
    IN  CASE idFields.err # "" -> Outcome(rd, idFields.err, <<>>)
          [] get.status = "err" -> Outcome(rd, "RemoteError", <<call>>)
          [] get.status = "nil" -> Outcome(rd, "MissingRemoteObject", <<call>>)
          [] upstreamJson.err # "" ->
                Outcome([rd EXCEPT !.consumer_id = idFields.consumerId,
                                   !.plugin_name = idFields.pluginName],
                        "InvalidBody", <<call>>)
          [] OTHER ->
                Outcome([rd EXCEPT !.consumer_id = idFields.consumerId,
                                   !.plugin_name = idFields.pluginName,
                                   !.config_json = upstreamJson.out],
                        "", <<call>>)

resourceKongConsumerPluginConfigCreate(rd, order, create, get) ==
    LET consumerId == readStringFromResource(rd, "consumer_id")
        pluginName == readStringFromResource(rd, "plugin_name")
        config == generatePluginConfig(readMapFromResource(rd, "config"),
                                       readStringFromResource(rd, "config_json"), order)
        call == Call("CreatePluginConfig", <<>>, consumerId, pluginName, NoRequest,
                     config.out, create)
        rd1 == IF create.status = "nil" THEN SetId(rd, <<>>)
               ELSE SetId(rd, buildId(consumerId, pluginName, create.obj.id))
    IN  CASE config.err # "" -> Outcome(rd, config.err, <<>>)
          [] create.status = "err" -> Outcome(rd, "RemoteError", <<call>>)
          [] OTHER -> After(call, resourceKongConsumerPluginConfigRead(rd1, get))

resourceKongConsumerPluginConfigDelete(rd, del) ==
    LET idFields == splitIdIntoFields(rd.id)
        call == Call("DeletePluginConfig", idFields.id, idFields.consumerId, idFields.pluginName,
                     NoRequest, <<>>, del)
    IN  CASE idFields.err # "" -> Outcome(rd, idFields.err, <<>>)
          [] del.status = "err" -> Outcome(rd, "RemoteError", <<call>>)
          [] OTHER -> Outcome(rd, "", <<call>>)

----------------------------------------------------------------------------
(* Inputs: what the plan, the importer and the remote API may supply *)

Obj(k1, v1, k2, v2) == [k \in Keys |-> IF k = k1 THEN v1 ELSE IF k = k2 THEN v2 ELSE Absent]

\* "config" as declared by the user: a map of strings
PlanMaps == {NoEntries, Obj("a", <<"x">>, "id", <<"a">>)}

\* "config_json" as declared by the user, or carried over from the state:
\* unset, objects (compact, and spaced with unsorted keys), null, an array,
\* cut-off text
Blobs ==
    { <<>>,
      <<"{", "a", ":", "1", "}">>,
      <<"{", " ", "id", ":", "x", ",", " ", "a", ":", "1.0", "}">>,
      <<"null">>,
      <<"[", "1", "]">>,
      <<"{", "a", ":">> }

\* the blobs the schema's ValidateFunc lets through (an unset attribute is not validated)
ValidatedBlobs == {J \in Blobs : J = <<>> \/ validateDataJSON(J) = ""}

\* configurations as the gateway stores them, computed fields included
RemoteConfigs ==
    { Obj("a", <<"1">>, "a", <<"1">>),
      Obj("a", <<"x">>, "id", <<"x">>),
      [k \in Keys |-> CASE k = "created_at" -> <<"1">>
                        [] k = "id" -> <<"a">>
                        [] k = "x" -> <<"{", "id", ":", "1", "}">>
                        [] OTHER -> Absent] }

PlanApiIds == {<<"a">>}

RemotePlugins ==
    {[NoObj EXCEPT !.id = <<"b">>, !.name = <<"a">>, !.api_id = <<"b">>, !.config = c] :
        c \in RemoteConfigs}

\* Plugins().Create returns an object whenever it returns no error (the handler
\* reads plugin.Id without a nil check)
CreatedPlugins == {[NoObj EXCEPT !.id = i, !.name = <<"a">>] : i \in {<<"a">>, <<"b">>}}

\* UpdateById's result is dropped by the handler
UpdatedPlugins == {[NoObj EXCEPT !.id = <<"a">>, !.name = <<"a">>]}

\* the body of a consumer plugin config: stored objects, compact or spaced,
\* and what a misbehaving remote may send
RemoteBodies ==
    {Marshal(c) : c \in RemoteConfigs}
    \cup { <<"{", "id", ":", "1", ",", " ", "a", ":", "1.0", "}">>, <<"null">>, <<"{", "a">> }

RemoteConsumerConfigs == {[NoObj EXCEPT !.id = <<"a">>, !.body = b] : b \in RemoteBodies}

CreatedConsumerConfigs == {[NoObj EXCEPT !.id = <<"b">>, !.body = <<"{", "}">>]}

PlanConsumerIds == {<<"a">>, <<"a", "|">>}

\* identifiers handed to the importer: a kong_plugin identifier is opaque, a
\* kong_consumer_plugin_config identifier is split on "|"
ImportIds(k) ==
    IF k = "plugin" THEN {<<>>, <<"a">>, <<"|">>}
    ELSE UNION {[1..n -> Chars] : n \in 0..MaxImportLen}

OkResps(objs) == {Resp("ok", o) : o \in objs}

----------------------------------------------------------------------------
(* Operations *)

NoOp == [name |-> "none", pre |-> NewResourceData, err |-> "", calls |-> <<>>]

Finish(name, rd, r) ==
    /\ d' = r.d
    /\ op' = [name |-> name, pre |-> rd, err |-> r.err, calls |-> r.calls]
    /\ UNCHANGED <<kind, probe, res>>

\* Importer: schema.ImportStatePassthrough keeps the identifier it is given
ImportStatePassthrough ==
    \E id \in ImportIds(kind) :
        Finish("ImportStatePassthrough", SetId(NewResourceData, id),
               Outcome(SetId(NewResourceData, id), "", <<>>))

PluginCreate(Js) ==
    /\ kind = "plugin"
    /\ \E api \in PlanApiIds, M \in PlanMaps, J \in Js,
          create \in {ErrResp} \cup OkResps(CreatedPlugins),
          get \in {ErrResp, NilResp} \cup OkResps(RemotePlugins) :
        LET rd == [NewResourceData EXCEPT !.name = <<"a">>, !.api_id = api,
                                          !.config = M, !.config_json = J]
        IN  Finish("resourceKongPluginCreate", rd, resourceKongPluginCreate(rd, create, get))

PluginUpdate(Js) ==
    /\ kind = "plugin"
    /\ \E api \in PlanApiIds, M \in PlanMaps, J \in Js,
          update \in {ErrResp} \cup OkResps(UpdatedPlugins),
          get \in {ErrResp, NilResp} \cup OkResps(RemotePlugins) :
        LET rd == [d EXCEPT !.api_id = api, !.config = M, !.config_json = J]
        IN  Finish("resourceKongPluginUpdate", rd, resourceKongPluginUpdate(rd, update, get))

PluginRead ==
    /\ kind = "plugin"
    /\ \E get \in {ErrResp, NilResp} \cup OkResps(RemotePlugins) :
        Finish("resourceKongPluginRead", d, resourceKongPluginRead(d, get))

PluginDelete ==
    /\ kind = "plugin"
    /\ \E del \in {ErrResp, NilResp} :
        Finish("resourceKongPluginDelete", d, resourceKongPluginDelete(d, del))

ConsumerPluginConfigCreate(Js) ==
    /\ kind = "consumer_plugin_config"
    /\ \E consumer \in PlanConsumerIds, M \in PlanMaps, J \in Js,
          create \in {ErrResp, NilResp} \cup OkResps(CreatedConsumerConfigs),
          get \in {ErrResp, NilResp} \cup OkResps(RemoteConsumerConfigs) :
        \E order \in Orders(M) :
            LET rd == [NewResourceData EXCEPT !.consumer_id = consumer, !.plugin_name = <<"b">>,
                                              !.config = M, !.config_json = J]
            IN  Finish("resourceKongConsumerPluginConfigCreate", rd,
                       resourceKongConsumerPluginConfigCreate(rd, order, create, get))

ConsumerPluginConfigRead ==
    /\ kind = "consumer_plugin_config"
    /\ \E get \in {ErrResp, NilResp} \cup OkResps(RemoteConsumerConfigs) :
        Finish("resourceKongConsumerPluginConfigRead", d,
               resourceKongConsumerPluginConfigRead(d, get))

ConsumerPluginConfigDelete ==
    /\ kind = "consumer_plugin_config"
    /\ \E del \in {ErrResp, NilResp} :
        Finish("resourceKongConsumerPluginConfigDelete", d,
               resourceKongConsumerPluginConfigDelete(d, del))

\* the schema's ValidateFunc turns a declared config_json down before any handler runs
SchemaReject ==
    \E J \in Blobs \ ValidatedBlobs, M \in PlanMaps :
        \/ /\ kind = "plugin"
           /\ \E name \in {"resourceKongPluginCreate", "resourceKongPluginUpdate"} :
                LET rd == IF name = "resourceKongPluginCreate"
                          THEN [NewResourceData EXCEPT !.name = <<"a">>, !.config = M,
                                                       !.config_json = J]
                          ELSE [d EXCEPT !.config = M, !.config_json = J]
                IN  Finish(name, rd, Outcome(rd, validateDataJSON(J), <<>>))
        \/ /\ kind = "consumer_plugin_config"
           /\ LET rd == [NewResourceData EXCEPT !.plugin_name = <<"b">>, !.config = M,
                                                !.config_json = J]
              IN  Finish("resourceKongConsumerPluginConfigCreate", rd,
                         Outcome(rd, validateDataJSON(J), <<>>))

NoProbe == [fn |-> "none", pc |-> "done", a |-> <<>>, b |-> <<>>, c |-> <<>>,
            text |-> <<>>, data |-> NoEntries]
NoRes == [built |-> <<>>, fields |-> NoFields, err |-> "", out |-> <<>>]

Init ==
    /\ kind \in Kinds
    /\ d = NewResourceData
    /\ op = NoOp
    /\ probe = NoProbe
    /\ res = NoRes

\* the handlers, called with whatever the ResourceData holds
Next ==
    \/ ImportStatePassthrough
    \/ PluginCreate(Blobs)
    \/ PluginUpdate(Blobs)
    \/ PluginRead
    \/ PluginDelete
    \/ ConsumerPluginConfigCreate(Blobs)
    \/ ConsumerPluginConfigRead
    \/ ConsumerPluginConfigDelete

Spec == Init /\ [][Next]_vars

\* the handlers behind the schema: a declared config_json has passed ValidateFunc
NextApply ==
    \/ ImportStatePassthrough
    \/ SchemaReject
    \/ PluginCreate(ValidatedBlobs)
    \/ PluginUpdate(ValidatedBlobs)
    \/ PluginRead
    \/ PluginDelete
    \/ ConsumerPluginConfigCreate(ValidatedBlobs)
    \/ ConsumerPluginConfigRead
    \/ ConsumerPluginConfigDelete

SpecApply == Init /\ [][NextApply]_vars

----------------------------------------------------------------------------
(* The pure functions on inputs of their own *)

\* remote objects: every key unset, a number, or an object that itself
\* holds a computed field name
DataMaps == [Keys -> {Absent, <<"1">>, <<"{", "id", ":", "1", "}">>}]

\* JSON text with a space after every "," and ":" and around the whole
RECURSIVE Spaced(_)
Spaced(t) ==
    IF t = <<>> THEN <<WS>>
    ELSE IF Head(t) \in {",", ":"} THEN <<Head(t), WS>> \o Spaced(Tail(t))
    ELSE <<Head(t)>> \o Spaced(Tail(t))

RawTokens == {"{", "}", "[", "]", ":", ",", WS, "a", "1", "null"}

Texts ==
    UNION {[1..n -> RawTokens] : n \in 0..MaxRaw}
    \cup Blobs \cup RemoteBodies
    \cup {Marshal(m) : m \in DataMaps}
    \cup {<<WS>> \o Spaced(Marshal(m)) : m \in DataMaps}
    \cup {SubSeq(Marshal(m), 1, Len(Marshal(m)) - 1) : m \in DataMaps}

TextFunctions == {"validateDataJSON", "normalizeDataJSON", "consumerPluginConfigJsonToString"}

ProbeInputs ==
    {[NoProbe EXCEPT !.fn = "buildId", !.pc = "in", !.a = a, !.b = b, !.c = c] :
        a \in Strs(MaxIdLen), b \in Strs(MaxIdLen), c \in Strs(MaxIdLen)}
    \cup {[NoProbe EXCEPT !.fn = f, !.pc = "in", !.text = t] : f \in TextFunctions, t \in Texts}
    \cup {[NoProbe EXCEPT !.fn = "pluginConfigJsonToString", !.pc = "in", !.data = m] :
            m \in DataMaps}

Step(fn, from, to, r) ==
    /\ probe.fn = fn
    /\ probe.pc = from
    /\ probe' = [probe EXCEPT !.pc = to]
    /\ res' = r
    /\ UNCHANGED <<kind, d, op>>

ApplyBuildId ==
    Step("buildId", "in", "built", [res EXCEPT !.built = buildId(probe.a, probe.b, probe.c)])

ApplySplitIdIntoFields ==
    Step("buildId", "built", "done", [res EXCEPT !.fields = splitIdIntoFields(res.built)])

ApplyValidateDataJSON ==
    Step("validateDataJSON", "in", "done", [res EXCEPT !.err = validateDataJSON(probe.text)])

ApplyNormalizeDataJSON ==
    Step("normalizeDataJSON", "in", "done", [res EXCEPT !.out = normalizeDataJSON(probe.text)])

ApplyPluginConfigJsonToString ==
    Step("pluginConfigJsonToString", "in", "done",
         [res EXCEPT !.out = pluginConfigJsonToString(probe.data)])

ApplyConsumerPluginConfigJsonToString ==
    Step("consumerPluginConfigJsonToString", "in", "done",
         [res EXCEPT !.out = consumerPluginConfigJsonToString(probe.text).out,
                     !.err = consumerPluginConfigJsonToString(probe.text).err])

InitFn ==
    /\ kind = "plugin"
    /\ d = NewResourceData
    /\ op = NoOp
    /\ probe \in ProbeInputs
    /\ res = NoRes

NextFn ==
    \/ ApplyBuildId
    \/ ApplySplitIdIntoFields
    \/ ApplyValidateDataJSON
    \/ ApplyNormalizeDataJSON
    \/ ApplyPluginConfigJsonToString
    \/ ApplyConsumerPluginConfigJsonToString

SpecFn == InitFn /\ [][NextFn]_vars

----------------------------------------------------------------------------
(* Properties *)

NoPipe(s) == \A i \in 1..Len(s) : s[i] # "|"

\* text that is one JSON object
IsStructuredObject(text) == ParseText(text).ok /\ ParseText(text).kind = "object"

\* blob is the canonical text of R without the computed fields: it reads back
\* as an object with exactly the other keys of R and their values, and
\* normalising it changes nothing
IsStripped(blob, R) ==
    /\ IsStructuredObject(blob)
    /\ KeysOf(ParseText(blob).map) = KeysOf(R) \ computedPluginProperties
    /\ \A k \in KeysOf(R) \ computedPluginProperties : ParseText(blob).map[k] = R[k]
    /\ normalizeDataJSON(blob) = blob
    /\ \A i \in 1..Len(blob) : blob[i] # WS

CallsOf(fns) == {i \in 1..Len(op.calls) : op.calls[i].fn \in fns}

PluginWrites == {"resourceKongPluginCreate", "resourceKongPluginUpdate"}

\* C1: a triple without "|" in any component, built into an identifier and
\* split again, comes back as the same three components in the same order
C1_RoundTrip ==
    (probe.fn = "buildId" /\ probe.pc = "done"
        /\ NoPipe(probe.a) /\ NoPipe(probe.b) /\ NoPipe(probe.c))
    => res.fields = [err |-> "", consumerId |-> probe.a, pluginName |-> probe.b, id |-> probe.c]

C1_Witness ==
    /\ probe.fn = "buildId" /\ probe.pc = "done"
    /\ probe.a # <<>> /\ NoPipe(probe.a) /\ probe.b = <<>> /\ probe.c = <<>>
    /\ res.built = <<"a", "|", "|">>
    /\ res.fields.err = "" /\ res.fields.consumerId = probe.a

\* C2: a consumer plugin config whose identifier does not split into three
\* parts is neither read nor deleted: the handler reports the malformed
\* identifier, calls nothing and leaves the ResourceData as it was; and no
\* GetPluginConfig or DeletePluginConfig is ever sent for such an identifier
C2_MalformedIdentifier ==
    /\ (op.name \in {"resourceKongConsumerPluginConfigRead",
                     "resourceKongConsumerPluginConfigDelete"}
            /\ Len(Split(op.pre.id)) # 3)
       => (op.err = "MalformedIdentifier" /\ op.calls = <<>> /\ d = op.pre)
    /\ (kind = "consumer_plugin_config"
            /\ CallsOf({"GetPluginConfig", "DeletePluginConfig"}) # {})
       => Len(Split(d.id)) = 3

C2_Witness ==
    /\ op.name = "resourceKongConsumerPluginConfigDelete"
    /\ Len(Split(op.pre.id)) = 4
    /\ op.err = "MalformedIdentifier"

\* C3: creating a consumer plugin config with both config and config_json
\* given fails with ConflictingConfig, calls nothing and sets no identifier
C3_Exclusive ==
    (op.name = "resourceKongConsumerPluginConfigCreate"
        /\ ~IsNil(op.pre.config) /\ op.pre.config_json # <<>>)
    => (op.err = "ConflictingConfig" /\ op.calls = <<>> /\ d.id = <<>> /\ d = op.pre)

C3_Witness ==
    /\ op.name = "resourceKongConsumerPluginConfigCreate"
    /\ ~IsNil(op.pre.config) /\ IsStructuredObject(op.pre.config_json)
    /\ op.err = "ConflictingConfig"

\* C4: the request of a kong_plugin create or update carries config when it
\* is given, whatever config_json holds (which then raises no error); else
\* the object read from config_json; else nothing
C4_Precedence ==
    op.name \in PluginWrites =>
        LET M == op.pre.config
            J == op.pre.config_json
            sent == op.calls[1].req.config
        IN  /\ ~IsNil(M) => (op.err # "InvalidConfig" /\ op.calls # <<>> /\ sent = M)
            /\ (IsNil(M) /\ IsStructuredObject(J)) => (op.calls # <<>> /\ sent = ParseText(J).map)
            /\ (IsNil(M) /\ J # <<>> /\ op.calls # <<>>) => sent = ParseText(J).map
            /\ (IsNil(M) /\ J = <<>>) => (op.calls # <<>> /\ sent = NoEntries)
            /\ op.calls # <<>> => op.calls[1].fn \in {"Create", "UpdateById"}

C4_Witness ==
    /\ op.name = "resourceKongPluginUpdate"
    /\ ~IsNil(op.pre.config) /\ op.pre.config_json = <<"{", "a", ":">>
    /\ op.calls # <<>> /\ op.calls[1].fn = "UpdateById"
    /\ op.calls[1].req.config = op.pre.config

\* C5: validateDataJSON accepts a text exactly when it is a JSON object
C5_ValidationAgreement ==
    (probe.fn = "validateDataJSON" /\ probe.pc = "done")
    => (res.err = "" <=> IsStructuredObject(probe.text))

\* the output of either drift filter is the stripped canonical text of its input
DriftFiltered ==
    /\ (probe.fn = "pluginConfigJsonToString" /\ probe.pc = "done")
       => IsStripped(res.out, probe.data)
    /\ (probe.fn = "consumerPluginConfigJsonToString" /\ probe.pc = "done"
            /\ IsStructuredObject(probe.text))
       => (res.err = "" /\ IsStripped(res.out, ParseText(probe.text).map))

\* C6: the drift filter of either resource writes the canonical text of the
\* remote object without its computed top-level keys, every other key with
\* its value (nested names included), and leaves its input as it was
C6_DriftFilter ==
    /\ []DriftFiltered
    /\ [][probe'.data = probe.data /\ probe'.text = probe.text]_vars

C6_Witness ==
    /\ probe.fn = "pluginConfigJsonToString" /\ probe.pc = "done"
    /\ probe.data["id"] # Absent /\ probe.data["created_at"] # Absent
    /\ probe.data["x"] = <<"{", "id", ":", "1", "}">>
    /\ res.out = <<"{", "x", ":", "{", "id", ":", "1", "}", "}">>

\* C7: when the lookup returns no error and no object, reading a kong_plugin
\* clears the identifier, changes nothing else and succeeds, while reading a
\* consumer plugin config fails and changes nothing
C7_NotFoundAsymmetry ==
    /\ (op.name = "resourceKongPluginRead" /\ op.calls[1].resp.status = "nil")
       => (op.err = "" /\ d = [op.pre EXCEPT !.id = <<>>])
    /\ (op.name = "resourceKongConsumerPluginConfigRead" /\ op.calls # <<>>
            /\ op.calls[1].resp.status = "nil")
       => (op.err # "" /\ d = op.pre)

C7_Witness ==
    /\ op.name = "resourceKongConsumerPluginConfigRead"
    /\ op.calls # <<>> /\ op.calls[1].fn = "GetPluginConfig"
    /\ op.calls[1].resp.status = "nil"
    /\ op.err = "MissingRemoteObject"
    /\ Len(Split(d.id)) = 3 /\ d = op.pre

\* the configuration the last lookup of the operation returned
Observed ==
    LET last == op.calls[Len(op.calls)] IN
    IF kind = "plugin" THEN last.resp.obj.config ELSE ParseText(last.resp.obj.body).map

\* C8: after a create, update or read that succeeds and leaves an
\* identifier, config_json is the canonical text of the configuration just
\* observed on the remote, computed fields removed, whichever input was used
C8_ConfigAtRest ==
    (op.name \in PluginWrites \cup {"resourceKongPluginRead",
                                    "resourceKongConsumerPluginConfigCreate",
                                    "resourceKongConsumerPluginConfigRead"}
        /\ op.err = "" /\ d.id # <<>>)
    => /\ op.calls # <<>>
       /\ op.calls[Len(op.calls)].fn \in {"GetById", "GetPluginConfig"}
       /\ op.calls[Len(op.calls)].resp.status = "ok"
       /\ IsStripped(d.config_json, Observed)

C8_Witness ==
    /\ op.name = "resourceKongPluginCreate"
    /\ ~IsNil(op.pre.config) /\ op.pre.config_json = <<>>
    /\ op.err = "" /\ d.id # <<>>
    /\ Observed["id"] # Absent
    /\ d.config = op.pre.config
    /\ d.config_json = <<"{", "a", ":", "x", "}">>

\* C9: a create or update that takes its configuration from a config_json
\* that is not a JSON object fails with InvalidConfig, calls nothing and
\* leaves the identifier as it was
C9_ValidationBeforeTransport ==
    (op.name \in PluginWrites \cup {"resourceKongConsumerPluginConfigCreate"}
        /\ IsNil(op.pre.config) /\ op.pre.config_json # <<>>
        /\ ~IsStructuredObject(op.pre.config_json))
    => (op.err = "InvalidConfig" /\ op.calls = <<>> /\ d.id = op.pre.id)

\* C10: a create whose remote create call returned an object and whose
\* follow-up read failed reports the error and keeps the identifier of the
\* created object; no create sends a delete, nor the create call twice
C10_PartialCreate ==
    /\ (op.name = "resourceKongPluginCreate" /\ op.calls # <<>>
            /\ op.calls[1].resp.status = "ok" /\ op.err # "")
       => d.id = op.calls[1].resp.obj.id
    /\ (op.name = "resourceKongConsumerPluginConfigCreate" /\ op.calls # <<>>
            /\ op.calls[1].resp.status = "ok" /\ op.err # "")
       => d.id = op.pre.consumer_id \o <<"|">> \o op.pre.plugin_name \o <<"|">>
                 \o op.calls[1].resp.obj.id
    /\ op.name \in {"resourceKongPluginCreate", "resourceKongConsumerPluginConfigCreate"}
       => /\ CallsOf({"DeleteById", "DeletePluginConfig"}) = {}
          /\ Cardinality(CallsOf({"Create", "CreatePluginConfig"})) <= 1

C10_Witness ==
    /\ op.name = "resourceKongPluginCreate"
    /\ Len(op.calls) = 2
    /\ op.calls[1].fn = "Create" /\ op.calls[1].resp.status = "ok"
    /\ op.calls[2].fn = "GetById" /\ op.calls[2].resp.status = "err"
    /\ op.err = "RemoteError"
    /\ d.id = op.calls[1].resp.obj.id /\ d.id # <<>>

====
